---- MODULE Spec2Model ----
(***************************************************************************)
(* Model of the multimodal RAG repository:                                 *)
(*   document_processor.py  DocumentProcessor.process_pdf / _process_page  *)
(*   rag_pipeline.py        MultiModalRAG.ingest_documents /               *)
(*                          select_best_visual_match                       *)
(*   app.py                 chat handler (visual linker, presentation)     *)
(* External collaborators (vision model, classifier, index, uuid4) are     *)
(* nondeterministic inputs drawn from small sets.                          *)
(***************************************************************************)
EXTENDS Integers, Sequences, FiniteSets, TLC

VARIABLES
    \* ---- process_pdf (document_processor.py:18-68)
    num_pages,      \* len(doc)
    future,         \* page_num -> "pending" | "running" | "done" | "yielded"
    outcome,        \* page_num -> what the future holds once done
    results,        \* list of (page_num, doc_obj), in as_completed order
    issued,         \* full uuid4 values handed out so far in this run
    pdfPc,          \* "pool" | "returned"
    documents,      \* the list process_pdf returns
    \* ---- one call of _process_page (document_processor.py:70-189)
    pageIn,         \* the page's inputs and the external answers it will get
    pageOut,        \* the call's result and trace, once called
    \* ---- chat handler, visual linker (app.py:207-251)
    source_docs,    \* the chunks the retriever returned
    linkOut,        \* found ids, candidates and all_images_data, once linked
    \* ---- select_best_visual_match (rag_pipeline.py:148-193)
    selCands,       \* the candidates argument: None or a list
    selOut,         \* whether the classifier was invoked, and the return value
    \* ---- chat handler, selection and presentation (app.py:253-331)
    chatCands,      \* the candidates the linker built
    chatOut,        \* what the handler parsed and showed, once it ran
    \* ---- ingest_documents (rag_pipeline.py:18-68)
    total_chunks,   \* len(chunks)
    collection,     \* what the index collection holds
    batch_i,        \* the loop variable i
    retry_count,
    ingPc,          \* "reset" | "attempt" | "after_batch" | "done" | "raised"
    batchLog,       \* per batch: upsert calls, rate-limit failures, outcome
    upsertCalls,    \* add_documents calls so far
    sleeps,         \* the time.sleep calls so far, in order
    previous,       \* what the collection held when the run began
    readerSaw       \* what a query running beside the ingestion read

PdfVars  == <<num_pages, future, outcome, results, issued, pdfPc, documents>>
PageVars == <<pageIn, pageOut>>
LinkVars == <<source_docs, linkOut>>
SelVars  == <<selCands, selOut>>
IngVars  == <<total_chunks, collection, batch_i, retry_count, ingPc, batchLog,
              upsertCalls, sleeps, previous, readerSaw>>
ChatVars == <<chatCands, chatOut>>
vars     == <<PdfVars, PageVars, LinkVars, SelVars, ChatVars, IngVars>>

\* what the actions of one operation leave alone
NonPdfVars  == <<PageVars, LinkVars, SelVars, ChatVars, IngVars>>
NonPageVars == <<PdfVars, LinkVars, SelVars, ChatVars, IngVars>>
NonLinkVars == <<PdfVars, PageVars, SelVars, ChatVars, IngVars>>
NonSelVars  == <<PdfVars, PageVars, LinkVars, ChatVars, IngVars>>
NonChatVars == <<PdfVars, PageVars, LinkVars, SelVars, IngVars>>
NonIngVars  == <<PdfVars, PageVars, LinkVars, SelVars, ChatVars>>

-----------------------------------------------------------------------------
(* Generic helpers                                                         *)

Max(a, b) == IF a >= b THEN a ELSE b
Min(a, b) == IF a <= b THEN a ELSE b

\* Python's int() of the float n/d: truncation toward zero.
PyInt(n, d) == IF n >= 0 THEN n \div d ELSE -((-n) \div d)

\* Python's `sub in s` on strings, both given as sequences of characters.
Contains(s, sub) ==
    \E i \in 0..(Len(s) - Len(sub)) :
        \A j \in 1..Len(sub) : s[i + j] = sub[j]

\* str.lower() on the characters the model uses.
UpperCase == <<"A","B","C","D","E","F","G","H","I","J","K","L","M",
               "N","O","P","Q","R","S","T","U","V","W","X","Y","Z">>
LowerCase == <<"a","b","c","d","e","f","g","h","i","j","k","l","m",
               "n","o","p","q","r","s","t","u","v","w","x","y","z">>
LowerChar(c) ==
    IF \E i \in 1..Len(UpperCase) : UpperCase[i] = c
    THEN LowerCase[CHOOSE i \in 1..Len(UpperCase) : UpperCase[i] = c]
    ELSE c

Lower(s) == [i \in 1..Len(s) |-> LowerChar(s[i])]

-----------------------------------------------------------------------------
(* _process_page: the per-detection geometry                               *)

\* pad = int(dimension * 0.02)
Pad(dim) == PyInt(dim * 2, 100)

\* Mutant of CropBox: the padded box without the clamp to the page.
CropBoxUnclamped(bbox, w, h) ==
    << PyInt(bbox[2] * w, 1000) - Pad(w),
       PyInt(bbox[1] * h, 1000) - Pad(h),
       PyInt(bbox[4] * w, 1000) + Pad(w),
       PyInt(bbox[3] * h, 1000) + Pad(h) >>

\* crop_box = (left, top, right, bottom) for bbox = [ymin, xmin, ymax, xmax]
CropBox(bbox, w, h) ==
    << Max(0, PyInt(bbox[2] * w, 1000) - Pad(w)),
       Max(0, PyInt(bbox[1] * h, 1000) - Pad(h)),
       Min(w, PyInt(bbox[4] * w, 1000) + Pad(w)),
       Min(h, PyInt(bbox[3] * h, 1000) + Pad(h)) >>

\* Mutant of SkipBox: an empty (zero-width or zero-height) box is let through.
SkipBoxStrict(cb) == cb[3] < cb[1] \/ cb[4] < cb[2]

\* Mutant of SkipBox: only the width of the box is tested.
SkipBoxWidthOnly(cb) == cb[3] <= cb[1]

\* "Ensure valid box": the detection is skipped when this holds.
SkipBox(cb) == cb[3] <= cb[1] \/ cb[4] <= cb[2]

-----------------------------------------------------------------------------
(* Strings are sequences of one-character strings.                         *)

sTable  == <<"t","a","b","l","e">>
sChart  == <<"c","h","a","r","t">>
sGraph  == <<"g","r","a","p","h">>
sPlot   == <<"p","l","o","t">>
sFigure == <<"f","i","g","u","r","e">>

\* uuid4() strings, shortened to their first two groups ("3f2a9c1e-0001").
\* uuidA1 and uuidA2 are different UUIDs with the same first eight characters.
uuidA1 == <<"3","f","2","a","9","c","1","e","-","0","0","0","1">>
uuidA2 == <<"3","f","2","a","9","c","1","e","-","0","0","0","2">>
uuidB1 == <<"7","b","0","0","d","4","4","2","-","0","0","0","1">>
UUIDS  == {uuidA1, uuidA2, uuidB1}

\* the slice length of str(uuid.uuid4())[:8]
IdLen == 8

\* visual_id = str(uuid.uuid4())[:8]
VisualId(u) == SubSeq(u, 1, Min(IdLen, Len(u)))

-----------------------------------------------------------------------------
(* _detect_layout and _analyze_crop: the external model's answer decoded   *)

\* _detect_layout: any exception gives []; otherwise data.get("items", []).
\* resp.kind: "error" (call failed), "nonjson", "json_list" (JSON that is no
\* object: .get raises inside the try), "no_items" (object without "items"),
\* "items_null" (object with "items": null), "items" (object with a list).
DetectLayout(resp) ==
    CASE resp.kind = "items"      -> [kind |-> "list", items |-> resp.items]
      [] resp.kind = "items_null" -> [kind |-> "null", items |-> <<>>]
      [] OTHER                    -> [kind |-> "list", items |-> <<>>]

\* _analyze_crop: json.loads(content), or None on any exception.
\* resp.kind: "error", "nonjson" -> None; "dict", "empty_dict", "json_list"
\* are returned as parsed.
AnalyzeCrop(resp) ==
    IF resp.kind \in {"error", "nonjson"}
    THEN [kind |-> "none", description |-> "", markdown |-> ""]
    ELSE resp

\* `if analysis:` -- None, {} and [] are falsy.
Truthy(analysis) == analysis.kind \in {"dict", "json_list"}

\* Mutant of NormalizeType: the chart words are looked for first.
NormalizeTypeChartFirst(label) ==
    IF Contains(label, sChart) \/ Contains(label, sGraph)
       \/ Contains(label, sPlot) THEN "chart"
    ELSE IF Contains(label, sTable) THEN "table"
    ELSE "figure"

\* Normalisation of the coarse label (lines 141-150).
NormalizeType(label) ==
    IF Contains(label, sTable) THEN "table"
    ELSE IF Contains(label, sChart) \/ Contains(label, sGraph)
             \/ Contains(label, sPlot) THEN "chart"
    ELSE "figure"

\* valid_type.capitalize()
Capitalize(t) ==
    CASE t = "table" -> "Table" [] t = "chart" -> "Chart" [] OTHER -> "Figure"

-----------------------------------------------------------------------------
(* _process_page: the loop over the detections                             *)

\* The loop's running state before the first detection: page_image_metadata
\* (meta), visual_descriptions (descs), whether an exception was raised, and
\* a trace of what the loop did.
LoopStart ==
    [failed |-> FALSE, meta |-> <<>>, descs |-> <<>>,
     visited |-> <<>>, boxes |-> <<>>,
     cropped |-> <<>>, analysed |-> <<>>, drawn |-> <<>>]

\* One iteration of `for idx, item in enumerate(detected_items)`; idx is
\* 0-based.  uuid and resp are what uuid4() and the vision model answer if
\* the iteration gets that far.
ProcessItem(acc, idx, item, uuid, resp, page_num, w, h) ==
    IF Len(item.bbox) # 4                       \* unpacking bbox raises
    THEN [acc EXCEPT !.failed = TRUE, !.visited = Append(@, idx)]
    ELSE
    LET label    == Lower(item.type)
        cb       == CropBox(item.bbox, w, h)
        analysis == AnalyzeCrop(resp)
        vtype    == NormalizeType(label)
        md       == IF vtype = "table" THEN analysis.markdown ELSE ""
        boxed    == [acc EXCEPT !.visited = Append(@, idx),
                                !.boxes   = Append(@, [idx |-> idx, box |-> cb])]
        seen     == [boxed EXCEPT !.cropped  = Append(@, idx),
                                  !.drawn    = Append(@, uuid),
                                  !.analysed = Append(@, idx)]
    IN  IF SkipBox(cb) THEN boxed               \* continue
        ELSE IF ~Truthy(analysis) THEN seen     \* region skipped
        ELSE IF analysis.kind # "dict"
        THEN [seen EXCEPT !.failed = TRUE]      \* analysis.get raises
        ELSE [seen EXCEPT
                !.meta = Append(@,
                    [id          |-> VisualId(uuid),
                     path        |-> [dir |-> vtype, page |-> page_num, idx |-> idx],
                     type        |-> vtype,
                     description |-> analysis.description,
                     markdown    |-> md]),
                !.descs = Append(@,
                    [kind        |-> "ref",
                     label       |-> Capitalize(vtype),
                     id          |-> VisualId(uuid),
                     page        |-> page_num + 1,
                     description |-> analysis.description,
                     table_data  |-> IF vtype = "table" THEN analysis.markdown
                                     ELSE ""])]

RECURSIVE RunLoop(_, _, _, _, _)
\* The loop from detection number idx (0-based) on; an exception ends it.
\* in.uuids[k] and in.analyses[k] are what uuid4() and the vision model
\* answer for detection k if its iteration gets that far.
RunLoop(acc, idx, items, in, page_num) ==
    IF acc.failed \/ idx >= Len(items) THEN acc
    ELSE RunLoop(ProcessItem(acc, idx, items[idx + 1], in.uuids[idx + 1],
                             in.analyses[idx + 1], page_num, in.w, in.h),
                 idx + 1, items, in, page_num)

\* `return None` of the except branch (line 189).
PageNone == [kind |-> "none", page |-> 0, page_content |-> <<>>,
             image_metadata |-> <<>>]

\* Mutant of ProcessPage: the references are put in front of the raw text.
ProcessPageRefsFirst(page_num, in) ==
    LET det == DetectLayout(in.detect)
        acc == IF in.opens /\ det.kind = "list"
               THEN RunLoop(LoopStart, 0, det.items, in, page_num)
               ELSE [LoopStart EXCEPT !.failed = TRUE]
    IN  [ret |-> IF acc.failed THEN PageNone
                 ELSE [kind           |-> "doc",
                       page           |-> page_num + 1,
                       page_content   |-> acc.descs \o
                                          <<[kind |-> "raw", label |-> "",
                                             id |-> <<>>, page |-> page_num + 1,
                                             description |-> in.text,
                                             table_data |-> ""]>>,
                       image_metadata |-> acc.meta],
         visited  |-> acc.visited,
         boxes    |-> acc.boxes,
         cropped  |-> acc.cropped,
         analysed |-> acc.analysed,
         drawn    |-> acc.drawn]

\* _process_page(page_num, ...) on the inputs `in`:
\*   in.opens    FALSE when opening, loading or rendering the page raises
\*   in.text     page.get_text()
\*   in.w, in.h  full_page_image.size
\*   in.detect   the vision model's answer to the layout prompt
\*   in.uuids, in.analyses   per detection: uuid4() and the crop analysis answer
\* The result holds what the call returns (ret: None or the Document) and a
\* trace: the detections whose iteration began, the crop boxes computed, the
\* crops made, the Region Analyzer calls, the uuid4() values used.
ProcessPage(page_num, in) ==
    LET det == DetectLayout(in.detect)
        acc == IF in.opens /\ det.kind = "list"
               THEN RunLoop(LoopStart, 0, det.items, in, page_num)
               ELSE [LoopStart EXCEPT !.failed = TRUE]  \* enumerate(None) raises
    IN  [ret |-> IF acc.failed THEN PageNone
                 ELSE [kind           |-> "doc",
                       page           |-> page_num + 1,
                       page_content   |-> <<[kind |-> "raw", label |-> "",
                                             id |-> <<>>, page |-> page_num + 1,
                                             description |-> in.text,
                                             table_data |-> ""]>> \o acc.descs,
                       image_metadata |-> acc.meta],
         visited  |-> acc.visited,
         boxes    |-> acc.boxes,
         cropped  |-> acc.cropped,
         analysed |-> acc.analysed,
         drawn    |-> acc.drawn]

-----------------------------------------------------------------------------
(* Inputs: pages, detections and the external model's answers              *)

\* Bounds of the model.
MaxPages == 3       \* pages of a document
MaxItems == 2       \* detections on one page

\* max_workers of the ThreadPoolExecutor
MaxWorkers == 5

SeqsUpTo(S, n) == UNION {[1..k -> S] : k \in 0..n}

\* Rendered page sizes (w, h) and 0-1000 scale coordinates, with values
\* outside the scale as the vision model may give them.
PageSizes == {<<1, 1>>, <<49, 120>>, <<1000, 1000>>, <<1836, 2376>>}
Coords    == {-20, 0, 15, 500, 510, 985, 1000, 1030}
GridBoxes == {<<y1, x1, y2, x2>> : y1 \in Coords, x1 \in Coords,
                                   y2 \in Coords, x2 \in Coords}

\* the documented example box, an empty raw box, a slightly inverted raw box,
\* a strongly inverted raw box, and a bbox that is missing or not four numbers
BoxTable    == <<100, 50, 400, 950>>
BoxEmpty    == <<100, 500, 400, 500>>
BoxInverted == <<400, 510, 100, 500>>
BoxFlipped  == <<100, 950, 400, 50>>
BoxMissing  == <<>>

AnalysisOk   == [kind |-> "dict", description |-> "desc", markdown |-> "|a|b|"]
AnalysisNoMd == [kind |-> "dict", description |-> "desc", markdown |-> ""]
AnalysisResponses ==
    {AnalysisOk, AnalysisNoMd,
     [kind |-> "empty_dict", description |-> "", markdown |-> ""],
     [kind |-> "json_list",  description |-> "", markdown |-> ""],
     [kind |-> "nonjson",    description |-> "", markdown |-> ""],
     [kind |-> "error",      description |-> "", markdown |-> ""]}

\* coarse labels: the three the prompt asks for, other casings and wordings,
\* a label with a chart word and "table", and an empty one
sBarChart  == <<"B","a","r"," ","C","h","a","r","t">>
sPlotTable == <<"p","l","o","t"," ","t","a","b","l","e">>
Labels == {sTable, <<"T","A","B","L","E">>, sGraph, sFigure,
           sPlot, sBarChart, sPlotTable, <<>>}

\* One detection together with the analysis answer its crop would get.
RegionCases ==
    [item : [type : {sTable},
             bbox : {BoxTable, BoxEmpty, BoxInverted, BoxFlipped, BoxMissing}],
     analysis : AnalysisResponses]
    \cup [item : [type : Labels, bbox : {BoxTable}], analysis : {AnalysisOk}]

\* uuid4() never repeats a full value; the values a page gets, in call order.
UuidOrders == {<<uuidA1, uuidB1, uuidA2>>, <<uuidA1, uuidA2, uuidB1>>}
PadUuids(us, n) == [k \in 1..n |-> us[((k - 1) % Len(us)) + 1]]

DetectFailures ==
    {[kind |-> k, items |-> <<>>] :
        k \in {"error", "nonjson", "json_list", "no_items", "items_null"}}

MkPage(page_num, opens, wh, detect, uuids, analyses) ==
    [page_num |-> page_num, opens |-> opens, text |-> "raw text",
     w |-> wh[1], h |-> wh[2], detect |-> detect,
     uuids |-> uuids, analyses |-> analyses]

\* Pages whose single detection ranges over the coordinate grid.
GeometryPages ==
    {MkPage(0, TRUE, wh, [kind |-> "items",
                          items |-> <<[type |-> sTable, bbox |-> b]>>],
            <<uuidA1>>, <<AnalysisOk>>) : wh \in PageSizes, b \in GridBoxes}

\* Pages with up to MaxItems detections of the region cases.
RegionPages ==
    {MkPage(pn, TRUE, <<1000, 1000>>,
            [kind |-> "items", items |-> [k \in 1..Len(rs) |-> rs[k].item]],
            PadUuids(us, Len(rs)),
            [k \in 1..Len(rs) |-> rs[k].analysis]) :
        pn \in {0, 1}, rs \in SeqsUpTo(RegionCases, MaxItems), us \in UuidOrders}

\* Pages whose layout detection gives nothing usable, or that cannot be opened.
FailurePages ==
    {MkPage(0, TRUE, <<1000, 1000>>, d, <<>>, <<>>) : d \in DetectFailures}
    \cup {MkPage(0, FALSE, <<1000, 1000>>, [kind |-> "error", items |-> <<>>],
                 <<>>, <<>>)}

PageInputs == GeometryPages \cup RegionPages \cup FailurePages

NotCalled == [called |-> FALSE, ret |-> PageNone,
              visited |-> <<>>, boxes |-> <<>>, cropped |-> <<>>, analysed |-> <<>>, drawn |-> <<>>]

\* One call of _process_page on the drawn inputs.
CallProcessPage ==
    /\ ~pageOut.called
    /\ pageOut' = [called |-> TRUE] @@ ProcessPage(pageIn.page_num, pageIn)
    /\ UNCHANGED <<pageIn, NonPageVars>>

-----------------------------------------------------------------------------
(* process_pdf: the worker pool, result collection, sort and filter        *)

Pages == 0..(num_pages - 1)

Range(f) == {f[x] : x \in DOMAIN f}

RECURSIVE InsertByPage(_, _)
\* r inserted into the sorted list after every entry whose key is <= its own
InsertByPage(sorted, r) ==
    IF sorted = <<>> THEN <<r>>
    ELSE IF sorted[Len(sorted)][1] <= r[1] THEN Append(sorted, r)
    ELSE Append(InsertByPage(SubSeq(sorted, 1, Len(sorted) - 1), r),
                sorted[Len(sorted)])

RECURSIVE SortByPage(_)
\* results.sort(key=lambda x: x[0]): a stable sort on the page number
SortByPage(rs) ==
    IF rs = <<>> THEN <<>>
    ELSE InsertByPage(SortByPage(SubSeq(rs, 1, Len(rs) - 1)), rs[Len(rs)])

\* Mutant of DropNone: the None entries are kept.
KeepNone(rs) == [i \in 1..Len(rs) |-> rs[i][2]]

RECURSIVE DropNone(_)
\* [r[1] for r in results if r[1] is not None]
DropNone(rs) ==
    IF rs = <<>> THEN <<>>
    ELSE IF rs[1][2].kind = "none" THEN DropNone(Tail(rs))
    ELSE <<rs[1][2]>> \o DropNone(Tail(rs))

\* Mutant of CollectDocuments: the sort is left out.
CollectUnsorted(rs) == DropNone(rs)

\* lines 64-66
CollectDocuments(rs) == DropNone(SortByPage(rs))

\* What one page can meet inside the pool: it cannot be opened, its layout
\* detection fails, or it has one or two detections; uuid4() gives values not
\* given before in this run.
PoolPages(page_num, free) ==
    {MkPage(page_num, FALSE, <<1000, 1000>>, [kind |-> "error", items |-> <<>>],
            <<>>, <<>>),
     MkPage(page_num, TRUE, <<1000, 1000>>, [kind |-> "error", items |-> <<>>],
            <<>>, <<>>)}
    \cup {MkPage(page_num, TRUE, <<1000, 1000>>,
                 [kind |-> "items",
                  items |-> [k \in 1..Len(us) |-> [type |-> sTable, bbox |-> BoxTable]]],
                 us, [k \in 1..Len(us) |-> AnalysisOk]) :
            us \in {u \in SeqsUpTo(free, MaxItems) :
                        Len(u) >= 1 /\ \A i, j \in 1..Len(u) : i # j => u[i] # u[j]}}

Running == {p \in Pages : future[p] = "running"}

\* Mutant of StartPage: the pool has no width.
StartPageUnbounded(p) ==
    /\ pdfPc = "pool"
    /\ future[p] = "pending"
    /\ \A q \in Pages : q < p => future[q] # "pending"
    /\ future' = [future EXCEPT ![p] = "running"]
    /\ UNCHANGED <<num_pages, outcome, results, issued, pdfPc, documents, NonPdfVars>>

\* A free worker takes the next queued page (the queue is first in, first out).
StartPage(p) ==
    /\ pdfPc = "pool"
    /\ future[p] = "pending"
    /\ \A q \in Pages : q < p => future[q] # "pending"
    /\ Cardinality(Running) < MaxWorkers
    /\ future' = [future EXCEPT ![p] = "running"]
    /\ UNCHANGED <<num_pages, outcome, results, issued, pdfPc, documents, NonPdfVars>>

\* The worker's call of _process_page returns (a Document or None).
FinishPage(p) ==
    /\ pdfPc = "pool"
    /\ future[p] = "running"
    /\ \E in \in PoolPages(p, UUIDS \ issued) :
          LET r == ProcessPage(p, in)
          IN  /\ outcome' = [outcome EXCEPT ![p] = r.ret]
              /\ issued' = issued \cup Range(r.drawn)
    /\ future' = [future EXCEPT ![p] = "done"]
    /\ UNCHANGED <<num_pages, results, pdfPc, documents, NonPdfVars>>

\* The worker's call raises instead (an exception that escapes the call's own
\* handler, e.g. raised while the handler prints).
PageRaises(p) ==
    /\ pdfPc = "pool"
    /\ future[p] = "running"
    /\ outcome' = [outcome EXCEPT ![p] = [PageNone EXCEPT !.kind = "raised"]]
    /\ future' = [future EXCEPT ![p] = "done"]
    /\ UNCHANGED <<num_pages, results, issued, pdfPc, documents, NonPdfVars>>

\* Mutant of CollectResult: a future that raised is appended as well.
CollectResultAppendsAll(p) ==
    /\ pdfPc = "pool"
    /\ future[p] = "done"
    /\ future' = [future EXCEPT ![p] = "yielded"]
    /\ results' = Append(results, <<p, outcome[p]>>)
    /\ UNCHANGED <<num_pages, outcome, issued, pdfPc, documents, NonPdfVars>>

\* Mutant of CollectResult: a future that raised is never yielded.
CollectResultSkipsRaised(p) ==
    /\ pdfPc = "pool"
    /\ future[p] = "done"
    /\ outcome[p].kind # "raised"
    /\ future' = [future EXCEPT ![p] = "yielded"]
    /\ results' = Append(results, <<p, outcome[p]>>)
    /\ UNCHANGED <<num_pages, outcome, issued, pdfPc, documents, NonPdfVars>>

\* as_completed yields a finished future (lines 55-62): its result is
\* appended, unless future.result() raises.
CollectResult(p) ==
    /\ pdfPc = "pool"
    /\ future[p] = "done"
    /\ future' = [future EXCEPT ![p] = "yielded"]
    /\ results' = IF outcome[p].kind = "raised" THEN results
                  ELSE Append(results, <<p, outcome[p]>>)
    /\ UNCHANGED <<num_pages, outcome, issued, pdfPc, documents, NonPdfVars>>

\* All futures were yielded: sort, drop the None entries, return.
ReturnDocuments ==
    /\ pdfPc = "pool"
    /\ \A p \in Pages : future[p] = "yielded"
    /\ documents' = CollectDocuments(results)
    /\ pdfPc' = "returned"
    /\ UNCHANGED <<num_pages, future, outcome, results, issued, NonPdfVars>>

\* Bound of the model: pages of a document longer than the pool is wide.
MaxPoolPages == 6

\* a page of text only: it opens, and its layout detection finds nothing usable
TextPage(page_num) ==
    MkPage(page_num, TRUE, <<1000, 1000>>, [kind |-> "error", items |-> <<>>],
           <<>>, <<>>)

\* The worker's call of _process_page returns, on a page of text only.
FinishTextPage(p) ==
    /\ pdfPc = "pool"
    /\ future[p] = "running"
    /\ outcome' = [outcome EXCEPT ![p] = ProcessPage(p, TextPage(p)).ret]
    /\ future' = [future EXCEPT ![p] = "done"]
    /\ UNCHANGED <<num_pages, results, issued, pdfPc, documents, NonPdfVars>>

\* process_pdf on a long document of text pages
PoolNext ==
    \/ \E p \in Pages : StartPage(p)
    \/ \E p \in Pages : FinishTextPage(p)
    \/ \E p \in Pages : CollectResult(p)
    \/ ReturnDocuments

PdfNext ==
    \/ \E p \in Pages : StartPage(p)
    \/ \E p \in Pages : FinishPage(p)
    \/ \E p \in Pages : PageRaises(p)
    \/ \E p \in Pages : CollectResult(p)
    \/ ReturnDocuments

-----------------------------------------------------------------------------
(* Chat handler: the visual linker (app.py:207-251)                        *)

Letters ==
    {"a","b","c","d","e","f","g","h","i","j","k","l","m","n","o","p","q","r",
     "s","t","u","v","w","x","y","z",
     "A","B","C","D","E","F","G","H","I","J","K","L","M","N","O","P","Q","R",
     "S","T","U","V","W","X","Y","Z"}
Digits == {"0","1","2","3","4","5","6","7","8","9"}

\* the character class [a-zA-Z0-9-] and the class \s
TokenChars == Letters \cup Digits \cup {"-"}
SpaceChars == {" ", "\t", "\n", "\r"}

RECURSIVE RunEnd(_, _, _)
\* the first position >= i of text whose character is not in the class
RunEnd(text, i, class) ==
    IF i <= Len(text) /\ text[i] \in class THEN RunEnd(text, i + 1, class) ELSE i

\* id_pattern = r"ID:\s*([a-zA-Z0-9-]+)\]" tried at position i: the greedy
\* runs of \s and of the token class are the only way it can match.
MatchAt(text, i) ==
    LET j == RunEnd(text, i + 3, SpaceChars)
        k == RunEnd(text, j, TokenChars)
    IN  IF /\ i + 2 <= Len(text)
           /\ text[i] = "I" /\ text[i + 1] = "D" /\ text[i + 2] = ":"
           /\ k > j /\ k <= Len(text) /\ text[k] = "]"
        THEN [ok |-> TRUE,  token |-> SubSeq(text, j, k - 1), next |-> k + 1]
        ELSE [ok |-> FALSE, token |-> <<>>, next |-> i + 1]

RECURSIVE FindAllFrom(_, _)
\* id_pattern.findall(text): leftmost matches, not overlapping
FindAllFrom(text, i) ==
    IF i > Len(text) THEN {}
    ELSE LET m == MatchAt(text, i)
         IN  (IF m.ok THEN {m.token} ELSE {}) \cup FindAllFrom(text, m.next)

FindAll(text) == FindAllFrom(text, 1)

\* Mutant of FoundIds: only the first retrieved chunk's text is scanned.
FoundIdsFirstOnly(docs) ==
    IF docs = <<>> THEN {} ELSE FindAll(docs[1].page_content)

\* lines 216-219: found_ids_in_context over all retrieved chunks
FoundIds(docs) == UNION {FindAll(docs[d].page_content) : d \in 1..Len(docs)}

\* the slice length of item.get('description', '')[:300]
DescLimit == 300

\* Mutant of LinkItem: an element already among the candidates is passed over.
LinkItemDedup(acc, d, i, doc, item, found) ==
    IF item.path # "exists"
       \/ \E n \in 1..Len(acc.candidates) :
             acc.candidates[n].description.tag = item.description.tag
    THEN acc
    ELSE LET visual_id == IF item.has_id THEN item.id ELSE <<>>
             linked    == visual_id \in found
         IN  [acc EXCEPT
                !.candidates = Append(@,
                    [id          |-> Len(acc.candidates),
                     type        |-> item.type,
                     description |-> [linked_prefix |-> linked,
                                      tag |-> item.description.tag,
                                      len |-> Min(item.description.len, DescLimit)],
                     is_linked   |-> linked]),
                !.images = Append(@,
                    [path      |-> [doc |-> d, item |-> i],
                     page      |-> doc.page,
                     markdown  |-> item.markdown,
                     is_linked |-> linked]),
                !.origin = Append(@, [doc |-> d, item |-> i])]

\* Mutant of LinkItem: the image entry is appended for every metadata item,
\* the candidate only for one whose file exists.
LinkItemImageAlways(acc, d, i, doc, item, found) ==
    LET visual_id == IF item.has_id THEN item.id ELSE <<>>
        linked    == visual_id \in found
        withImage == [acc EXCEPT
                        !.images = Append(@,
                            [path      |-> [doc |-> d, item |-> i],
                             page      |-> doc.page,
                             markdown  |-> item.markdown,
                             is_linked |-> linked])]
    IN  IF item.path # "exists" THEN withImage
        ELSE [withImage EXCEPT
                !.candidates = Append(@,
                    [id          |-> Len(acc.candidates),
                     type        |-> item.type,
                     description |-> [linked_prefix |-> linked,
                                      tag |-> item.description.tag,
                                      len |-> Min(item.description.len, DescLimit)],
                     is_linked   |-> linked]),
                !.origin = Append(@, [doc |-> d, item |-> i])]

\* lines 227-249 for one metadata item: a candidate and an image entry are
\* appended when the item has a path that exists on disk.
LinkItem(acc, d, i, doc, item, found) ==
    IF item.path # "exists" THEN acc
    ELSE LET visual_id == IF item.has_id THEN item.id ELSE <<>>
             linked    == visual_id \in found
         IN  [acc EXCEPT
                !.candidates = Append(@,
                    [id          |-> Len(acc.candidates),
                     type        |-> item.type,
                     description |-> [linked_prefix |-> linked,
                                      tag |-> item.description.tag,
                                      len |-> Min(item.description.len, DescLimit)],
                     is_linked   |-> linked]),
                !.images = Append(@,
                    [path      |-> [doc |-> d, item |-> i],
                     page      |-> doc.page,
                     markdown  |-> item.markdown,
                     is_linked |-> linked]),
                !.origin = Append(@, [doc |-> d, item |-> i])]

RECURSIVE LinkItems(_, _, _, _, _)
LinkItems(acc, d, i, doc, found) ==
    IF i > Len(doc.meta.items) THEN acc
    ELSE LinkItems(LinkItem(acc, d, i, doc, doc.meta.items[i], found),
                   d, i + 1, doc, found)

RECURSIVE LinkDocs(_, _, _, _)
\* lines 222-251: the loop over the retrieved chunks.  doc.meta.kind:
\* "absent" (no image_metadata key), "badjson" (JSONDecodeError: the chunk is
\* passed over), "list" (a JSON list of items).
LinkDocs(acc, d, docs, found) ==
    IF d > Len(docs) THEN acc
    ELSE IF docs[d].meta.kind # "list" THEN LinkDocs(acc, d + 1, docs, found)
    ELSE LinkDocs(LinkItems(acc, d, 1, docs[d], found), d + 1, docs, found)

\* The linker's result: found_ids_in_context, candidates, all_images_data and
\* (a trace) the chunk and item each candidate was built from.
LinkVisuals(docs) ==
    LET found == FoundIds(docs)
    IN  LinkDocs([found |-> found, candidates |-> <<>>, images |-> <<>>,
                  origin |-> <<>>], 1, docs, found)


\* Bound of the model: chunks returned by the retriever (k = 5 in the code).
MaxDocs == 2

idA == VisualId(uuidA1)
idB == VisualId(uuidB1)

sID == <<"I","D",":">>
\* "[Detected Table ID: <id>]", the reference _process_page writes
RefText(id) ==
    <<"[","D","e","t","e","c","t","e","d"," ","T","a","b","l","e"," ">>
        \o sID \o <<" ">> \o id \o <<"]">>

\* Chunk texts: no reference; a reference; one without the space; one cut off
\* by the chunk boundary; a longer token ending in the id; two references,
\* the second with other whitespace; lower-case "id:"; a space before "]".
LinkTexts ==
    { <<>>,
      RefText(idA),
      sID \o idB \o <<"]">>,
      SubSeq(RefText(idA), 1, Len(RefText(idA)) - 1),
      sID \o <<" ", "x">> \o idA \o <<"]">>,
      RefText(idA) \o <<"\n">> \o sID \o <<"\n", " ">> \o idB \o <<"]">>,
      <<"i","d",":"," ">> \o idB \o <<"]">>,
      sID \o <<" ">> \o idA \o <<" ", "]">> }

ItemA == [path |-> "exists", has_id |-> TRUE, id |-> idA, type |-> "table",
          description |-> [tag |-> "d1", len |-> 40], markdown |-> "|a|b|"]
ItemB == [path |-> "exists", has_id |-> TRUE, id |-> idB, type |-> "chart",
          description |-> [tag |-> "d2", len |-> 450], markdown |-> ""]
\* an element whose crop file is gone, and one stored without an id
ItemBGone == [ItemB EXCEPT !.path = "missing"]
ItemNoId  == [path |-> "exists", has_id |-> FALSE, id |-> <<>>, type |-> "figure",
              description |-> [tag |-> "d3", len |-> 10], markdown |-> ""]

LinkMetas ==
    { [kind |-> "absent",  items |-> <<>>],
      [kind |-> "badjson", items |-> <<>>],
      [kind |-> "list", items |-> <<ItemA>>],
      [kind |-> "list", items |-> <<ItemB>>],
      [kind |-> "list", items |-> <<ItemA, ItemBGone>>],
      [kind |-> "list", items |-> <<ItemNoId, ItemB>>] }

LinkChunks == [page_content : LinkTexts, meta : LinkMetas, page : {1}]

NotLinked == [done |-> FALSE, found |-> {}, candidates |-> <<>>,
              images |-> <<>>, origin |-> <<>>]

\* The handler's linking step on the retrieved chunks.
LinkStep ==
    /\ ~linkOut.done
    /\ linkOut' = [done |-> TRUE] @@ LinkVisuals(source_docs)
    /\ UNCHANGED <<source_docs, NonLinkVars>>

-----------------------------------------------------------------------------
(* select_best_visual_match (rag_pipeline.py:148-193)                      *)

\* Bound of the model: candidates passed to the selector.
MaxCands == 3

VisualTypes == {"table", "chart", "figure"}

\* The classifier's answer as the code receives it.  kind: "error" (the call
\* raises), "nonjson" (json.loads raises), "json_null", "json_list" (valid
\* JSON that is no object), "dict" (a JSON object; has_* tell which keys it
\* carries).
NoFields ==
    [has_intent |-> FALSE, intent |-> "", has_type |-> FALSE,
     visual_type_requested |-> "", has_indices |-> FALSE,
     selected_indices |-> <<>>, has_index |-> FALSE, selected_index |-> 0,
     reason |-> ""]

ClassifierFailures ==
    {[kind |-> k] @@ NoFields : k \in {"error", "nonjson", "json_null", "json_list"}}

\* objects of the current shape: any list of up to MaxCands indices, in range
\* or not, under either intent
ClassifierObjects ==
    {[kind |-> "dict", has_intent |-> TRUE, intent |-> it, has_type |-> TRUE,
      visual_type_requested |-> vt, has_indices |-> TRUE, selected_indices |-> ix,
      has_index |-> FALSE, selected_index |-> 0, reason |-> "because"] :
        it \in {"specific", "all"}, vt \in {"table", "chart", "any"},
        ix \in SeqsUpTo(0..MaxCands, MaxCands)}

\* objects of the legacy shape (a single selected_index), with the list
\* absent or empty, and one without intent
ClassifierLegacy ==
    {[kind |-> "dict", has_intent |-> hi, intent |-> IF hi THEN "specific" ELSE "",
      has_type |-> FALSE, visual_type_requested |-> "", has_indices |-> hx,
      selected_indices |-> <<>>, has_index |-> TRUE, selected_index |-> v,
      reason |-> "because"] :
        hi \in BOOLEAN, hx \in BOOLEAN, v \in {0, MaxCands}}

ClassifierResponses == ClassifierFailures \cup ClassifierObjects \cup ClassifierLegacy

ReturnsNone == [kind |-> "none"] @@ NoFields

\* lines 185-193: the parsed answer, or None when the call or json.loads raises
ParseSelection(resp) ==
    IF resp.kind \in {"error", "nonjson", "json_null"} THEN ReturnsNone ELSE resp

\* The candidates argument: None, or a list.
CandNone == [kind |-> "none", items |-> <<>>]
CandList(items) == [kind |-> "list", items |-> items]

\* Mutant of SelectBestVisualMatch: the classifier is asked in every case.
SelectAlwaysAsks(candidates, resp) ==
    [called |-> TRUE, ret |-> ParseSelection(resp)]

\* select_best_visual_match(query, candidates) when the classifier answers
\* resp; `not candidates` holds for None and for the empty list.
SelectBestVisualMatch(candidates, resp) ==
    IF candidates.kind = "none" \/ candidates.items = <<>>
    THEN [called |-> FALSE, ret |-> ReturnsNone]
    ELSE [called |-> TRUE,  ret |-> ParseSelection(resp)]

\* candidates as the linker builds them, of the given types
MkCandidates(types) ==
    [n \in 1..Len(types) |->
        [id |-> n - 1, type |-> types[n],
         description |-> [linked_prefix |-> FALSE, tag |-> "d1", len |-> 40],
         is_linked |-> FALSE]]

NotSelected == [done |-> FALSE, called |-> FALSE, ret |-> ReturnsNone]

\* One call of select_best_visual_match.
SelectStep ==
    /\ ~selOut.done
    /\ \E resp \in ClassifierResponses :
          selOut' = [done |-> TRUE] @@ SelectBestVisualMatch(selCands, resp)
    /\ UNCHANGED <<selCands, NonSelVars>>

-----------------------------------------------------------------------------
(* Chat handler: selection parsing and presentation (app.py:253-331)       *)

\* Further answers of the classifier, as parsed JSON:
\*   a non-empty list and the legacy field together;
\*   negative indices;
\*   "json_empty_list" ([]) and "empty_dict" ({}), both falsy;
\*   "dict_str_indices": an object whose selected_indices holds strings
\*       (selected_indices here gives their number only);
\*   "dict_null_type": an object with "visual_type_requested": null.
ClassifierBoth ==
    {[kind |-> "dict", has_intent |-> TRUE, intent |-> it, has_type |-> FALSE,
      visual_type_requested |-> "", has_indices |-> TRUE, selected_indices |-> ix,
      has_index |-> TRUE, selected_index |-> v, reason |-> "because"] :
        it \in {"specific", "all"}, ix \in {<<1>>, <<MaxCands, 0>>}, v \in {0, 2}}

ClassifierNegative ==
    {[kind |-> "dict", has_intent |-> TRUE, intent |-> it, has_type |-> TRUE,
      visual_type_requested |-> "any", has_indices |-> TRUE, selected_indices |-> ix,
      has_index |-> FALSE, selected_index |-> 0, reason |-> ""] :
        it \in {"specific", "all"}, ix \in {<<-1>>, <<-1, 0>>, <<-2, 1, 0>>}}

ClassifierOdd ==
    {[kind |-> k] @@ NoFields : k \in {"json_empty_list", "empty_dict"}}
    \cup {[NoFields EXCEPT !.has_intent = TRUE, !.intent = it,
                           !.has_indices = TRUE, !.selected_indices = <<0>>]
            @@ [kind |-> "dict_str_indices"] : it \in {"specific", "all"}}
    \cup {[NoFields EXCEPT !.has_intent = TRUE, !.intent = it, !.has_type = TRUE,
                           !.has_indices = TRUE, !.selected_indices = <<0>>]
            @@ [kind |-> "dict_null_type"] : it \in {"specific", "all"}}

ChatResponses ==
    ClassifierResponses \cup ClassifierBoth \cup ClassifierNegative \cup ClassifierOdd

\* `if selection:` -- None, [] and {} are falsy
SelectionTruthy(selection) ==
    selection.kind \notin {"none", "json_empty_list", "empty_dict"}

\* the kinds that are JSON objects (they have .get)
IsObject(selection) ==
    selection.kind \in {"dict", "dict_str_indices", "dict_null_type"}

NoSelection ==
    [raised |-> FALSE, selected_indices |-> <<>>, strings |-> FALSE,
     intent |-> "specific", reason |-> "Selection failed."]

\* Mutant of ParseIndices: the legacy field counts only when it is truthy.
ParseIndicesTruthyLegacy(selection) ==
    IF ~SelectionTruthy(selection) THEN NoSelection
    ELSE IF ~IsObject(selection) THEN [NoSelection EXCEPT !.raised = TRUE]
    ELSE LET listed == IF selection.has_indices THEN selection.selected_indices
                       ELSE <<>>
         IN  [raised |-> FALSE,
              selected_indices |->
                  IF listed = <<>> /\ selection.has_index
                     /\ selection.selected_index # 0
                  THEN <<selection.selected_index>> ELSE listed,
              strings |-> selection.kind = "dict_str_indices",
              intent |-> IF selection.has_intent THEN selection.intent
                         ELSE "specific",
              reason |-> selection.reason]

\* lines 262-273: selected_indices, intent and reason out of the selection.
\* A truthy selection that is no object has no .get: AttributeError.
ParseIndices(selection) ==
    IF ~SelectionTruthy(selection) THEN NoSelection
    ELSE IF ~IsObject(selection) THEN [NoSelection EXCEPT !.raised = TRUE]
    ELSE LET listed == IF selection.has_indices THEN selection.selected_indices
                       ELSE <<>>
         IN  [raised |-> FALSE,
              selected_indices |->
                  IF listed = <<>> /\ selection.has_index
                  THEN <<selection.selected_index>> ELSE listed,
              strings |-> selection.kind = "dict_str_indices",
              intent |-> IF selection.has_intent THEN selection.intent
                         ELSE "specific",
              reason |-> selection.reason]

\* `0 <= idx < len(all_images_data)`
ValidIndex(idx, n) == 0 <= idx /\ idx < n

RECURSIVE ShowAll(_, _)
\* lines 285-292: every index that passes the range test is shown, in order
ShowAll(indices, n) ==
    IF indices = <<>> THEN <<>>
    ELSE (IF ValidIndex(Head(indices), n) THEN <<Head(indices)>> ELSE <<>>)
            \o ShowAll(Tail(indices), n)

\* Mutant of ShowFirst: the loop has no break.
ShowFirstNoBreak(indices, n) == ShowAll(indices, n)

RECURSIVE ShowFirst(_, _)
\* lines 296-310: the first index that passes the range test is shown, then break
ShowFirst(indices, n) ==
    IF indices = <<>> THEN <<>>
    ELSE IF ValidIndex(Head(indices), n) THEN <<Head(indices)>>
    ELSE ShowFirst(Tail(indices), n)

\* lines 318-331: the other visuals, those whose index is not in winner_idx_list
OtherVisuals(winner_idx_list, n) ==
    SelectSeq([i \in 1..n |-> i - 1],
              LAMBDA i : \A k \in 1..Len(winner_idx_list) : winner_idx_list[k] # i)

Shown(mode, raised, primary, others) ==
    [mode |-> mode, raised |-> raised, primary |-> primary, others |-> others]

\* lines 275-331 on the parsed selection, with n = len(all_images_data).
\* Comparing a string index with 0 raises TypeError; so does .capitalize()
\* on a null visual_type_requested in the gallery heading.
Present(selection, parsed, n) ==
    IF parsed.selected_indices = <<>>
    THEN Shown("no_match", FALSE, <<>>,
               IF parsed.intent = "all" THEN <<>> ELSE OtherVisuals(<<>>, n))
    ELSE IF parsed.intent = "all"
    THEN IF selection.kind = "dict_null_type" \/ parsed.strings
         THEN Shown("gallery", TRUE, <<>>, <<>>)
         ELSE Shown("gallery", FALSE, ShowAll(parsed.selected_indices, n), <<>>)
    ELSE IF parsed.strings
         THEN Shown("focus", TRUE, <<>>, <<>>)
         ELSE Shown("focus", FALSE, ShowFirst(parsed.selected_indices, n),
                    OtherVisuals(parsed.selected_indices, n))

\* The handler from line 253 on, for candidates and a classifier answer.
\* An exception leaves the handler at the except of line 341.
HandleVisuals(candidates, resp) ==
    IF candidates = <<>>
    THEN [asked |-> FALSE, selection |-> ReturnsNone, parsed |-> NoSelection,
          shown |-> Shown("no_visuals", FALSE, <<>>, <<>>)]
    ELSE LET selection == SelectBestVisualMatch(CandList(candidates), resp).ret
             parsed    == ParseIndices(selection)
         IN  [asked |-> TRUE, selection |-> selection, parsed |-> parsed,
              shown |-> IF parsed.raised THEN Shown("error", TRUE, <<>>, <<>>)
                        ELSE Present(selection, parsed, Len(candidates))]

NotHandled ==
    [done |-> FALSE, resp |-> ReturnsNone, asked |-> FALSE,
     selection |-> ReturnsNone, parsed |-> NoSelection,
     shown |-> Shown("no_visuals", FALSE, <<>>, <<>>)]

\* The handler's visual part for one query.
ChatStep ==
    /\ ~chatOut.done
    /\ \E resp \in ChatResponses :
          chatOut' = [done |-> TRUE, resp |-> resp] @@ HandleVisuals(chatCands, resp)
    /\ UNCHANGED <<chatCands, NonChatVars>>

ChatNext == ChatStep

-----------------------------------------------------------------------------
(* ingest_documents (rag_pipeline.py:18-68)                                *)

\* Bound of the model: chunks the text splitter produced.
MaxChunks == 101

\* batch_size and max_retries
BatchSize  == 50
MaxRetries == 5

\* the batch number of the batch starting at chunk i (i // batch_size)
BatchOf(i) == i \div BatchSize

RECURSIVE Pow2(_)
Pow2(k) == IF k = 0 THEN 1 ELSE 2 * Pow2(k - 1)

\* Mutant of WaitTime: the wait grows linearly.
WaitTimeLinear(retries) == 2 * retries

\* wait_time = 2 ** retry_count
WaitTime(retries) == Pow2(retries)

\* Mutant of RetryAllowed: one attempt too many.
RetryAllowedOffByOne(retries) == retries <= MaxRetries

\* `while retry_count < max_retries`
RetryAllowed(retries) == retries < MaxRetries

\* Mutant of AfterBatchPc: the loop ends at a batch that was given up.
AfterBatchPcStopsOnGiveUp(retries, next_i, n) ==
    IF retries = MaxRetries \/ next_i >= n THEN "done" ELSE "attempt"

\* where the for loop goes after a batch (whether or not it was given up)
AfterBatchPc(retries, next_i, n) == IF next_i < n THEN "attempt" ELSE "done"

NewBatch == [attempts |-> 0, rate_limited |-> 0, outcome |-> "none", reported |-> FALSE]

\* lines 25-43: the collection is reset, then the loop is entered.
\* delete_collection either deletes, or raises (no such collection, or another
\* error) and the exception is passed over.
ResetCollection ==
    /\ ingPc = "reset"
    /\ \E deleted \in BOOLEAN :
          /\ (collection = {} => ~deleted)
          /\ collection' = IF deleted THEN {} ELSE collection
    /\ batch_i' = 0
    /\ retry_count' = 0
    /\ ingPc' = IF 0 < total_chunks THEN "attempt" ELSE "done"
    /\ UNCHANGED <<total_chunks, batchLog, upsertCalls, sleeps, previous, readerSaw,
                   NonIngVars>>

\* Mutant of UpsertSucceeds: the whole new content goes in with one call.
UpsertSucceedsAllAtOnce ==
    /\ ingPc = "attempt"
    /\ LET b == BatchOf(batch_i)
       IN  /\ collection' = collection \cup {c \in DOMAIN batchLog :
                                                c * BatchSize < total_chunks}
           /\ batchLog' = [batchLog EXCEPT ![b].attempts = @ + 1,
                                           ![b].outcome = "ok"]
    /\ upsertCalls' = upsertCalls + 1
    /\ ingPc' = "after_batch"
    /\ UNCHANGED <<total_chunks, batch_i, retry_count, sleeps, previous, readerSaw,
                   NonIngVars>>

\* line 52 returns: the batch is in the index.
UpsertSucceeds ==
    /\ ingPc = "attempt"
    /\ LET b == BatchOf(batch_i)
       IN  /\ collection' = collection \cup {b}
           /\ batchLog' = [batchLog EXCEPT ![b].attempts = @ + 1,
                                           ![b].outcome = "ok"]
    /\ upsertCalls' = upsertCalls + 1
    /\ ingPc' = "after_batch"
    /\ UNCHANGED <<total_chunks, batch_i, retry_count, sleeps, previous, readerSaw,
                   NonIngVars>>

\* line 52 raises a rate-limit or quota error (lines 56-60): count, back off,
\* and go round the while loop again if the ceiling allows.
UpsertRateLimited ==
    /\ ingPc = "attempt"
    /\ LET b == BatchOf(batch_i)
       IN  batchLog' = [batchLog EXCEPT
                ![b].attempts = @ + 1,
                ![b].rate_limited = @ + 1,
                ![b].outcome = IF RetryAllowed(retry_count + 1) THEN @ ELSE "given_up"]
    /\ upsertCalls' = upsertCalls + 1
    /\ retry_count' = retry_count + 1
    /\ sleeps' = Append(sleeps, WaitTime(retry_count + 1))
    /\ ingPc' = IF RetryAllowed(retry_count + 1) THEN "attempt" ELSE "after_batch"
    /\ UNCHANGED <<total_chunks, collection, batch_i, previous, readerSaw,
                   NonIngVars>>

\* Mutant of UpsertFails: the error is swallowed and the loop goes on.
UpsertFailsSwallowed ==
    /\ ingPc = "attempt"
    /\ LET b == BatchOf(batch_i)
       IN  batchLog' = [batchLog EXCEPT ![b].attempts = @ + 1,
                                        ![b].outcome = "fatal"]
    /\ upsertCalls' = upsertCalls + 1
    /\ ingPc' = "after_batch"
    /\ UNCHANGED <<total_chunks, collection, batch_i, retry_count, sleeps, previous, readerSaw,
                   NonIngVars>>

\* line 52 raises any other error (lines 61-62): it is raised to the caller.
UpsertFails ==
    /\ ingPc = "attempt"
    /\ LET b == BatchOf(batch_i)
       IN  batchLog' = [batchLog EXCEPT ![b].attempts = @ + 1,
                                        ![b].outcome = "fatal"]
    /\ upsertCalls' = upsertCalls + 1
    /\ ingPc' = "raised"
    /\ UNCHANGED <<total_chunks, collection, batch_i, retry_count, sleeps, previous, readerSaw,
                   NonIngVars>>

\* Mutant of AfterBatch: no delay between the batches.
AfterBatchNoDelay ==
    /\ ingPc = "after_batch"
    /\ batchLog' = [batchLog EXCEPT
            ![BatchOf(batch_i)].reported = (retry_count = MaxRetries)]
    /\ batch_i' = batch_i + BatchSize
    /\ retry_count' = 0
    /\ ingPc' = AfterBatchPc(retry_count, batch_i + BatchSize, total_chunks)
    /\ UNCHANGED <<total_chunks, collection, upsertCalls, sleeps, previous, readerSaw,
                   NonIngVars>>

\* Mutant of AfterBatch: every batch that was retried is reported.
AfterBatchReportsRetried ==
    /\ ingPc = "after_batch"
    /\ batchLog' = [batchLog EXCEPT
            ![BatchOf(batch_i)].reported = (retry_count > 0)]
    /\ sleeps' = Append(sleeps, 1)
    /\ batch_i' = batch_i + BatchSize
    /\ retry_count' = 0
    /\ ingPc' = AfterBatchPc(retry_count, batch_i + BatchSize, total_chunks)
    /\ UNCHANGED <<total_chunks, collection, upsertCalls, previous, readerSaw,
                   NonIngVars>>

\* lines 64-68 and the loop header: report a batch that used up its retries,
\* sleep one second, go to the next batch or return.
AfterBatch ==
    /\ ingPc = "after_batch"
    /\ batchLog' = [batchLog EXCEPT
            ![BatchOf(batch_i)].reported = (retry_count = MaxRetries)]
    /\ sleeps' = Append(sleeps, 1)
    /\ batch_i' = batch_i + BatchSize
    /\ retry_count' = 0
    /\ ingPc' = AfterBatchPc(retry_count, batch_i + BatchSize, total_chunks)
    /\ UNCHANGED <<total_chunks, collection, upsertCalls, previous, readerSaw,
                   NonIngVars>>

\* What the caller of ingest_documents gets back from a run whose batches
\* ended as in log: the function has no return statement (the loop body ends
\* at line 68), so the value is None; the failure of a batch is only printed.
IngestReturnValue(log) == [kind |-> "none"]

\* app.py:154-159: the handler drops the return value and reports the number
\* of pages it handed in.
CallerView(log, n_pages) ==
    [returned |-> IngestReturnValue(log),
     sidebar  |-> [text |-> "Indexed pages", count |-> n_pages]]

NotRead == [taken |-> FALSE, content |-> {}, during |-> "idle"]

\* A query runs while the ingestion is under way: get_qa_chain opens the same
\* persisted collection (lines 74-81) and the retriever reads what it holds
\* at that moment.  One such query is followed.
ReaderQueries ==
    /\ ingPc \in {"reset", "attempt", "after_batch"}
    /\ ~readerSaw.taken
    /\ readerSaw' = [taken |-> TRUE, content |-> collection, during |-> ingPc]
    /\ UNCHANGED <<total_chunks, collection, batch_i, retry_count, ingPc, batchLog,
                   upsertCalls, sleeps, previous, NonIngVars>>

IngNext ==
    \/ ResetCollection
    \/ UpsertSucceeds
    \/ UpsertRateLimited
    \/ UpsertFails
    \/ AfterBatch
    \/ ReaderQueries

\* the steps of ingest_documents itself
IngestSteps ==
    \/ ResetCollection
    \/ UpsertSucceeds
    \/ UpsertRateLimited
    \/ UpsertFails
    \/ AfterBatch

-----------------------------------------------------------------------------
(* Claims about process_pdf (under SpecPdf)                                *)

Returned == pdfPc = "returned"

\* as_completed yielded some page before a page with a smaller number
CompletedOutOfOrder ==
    \E i, j \in 1..Len(results) : i < j /\ results[i][1] > results[j][1]

\* C1: the list process_pdf returns is in strictly increasing page-number
\* order, whatever the order in which the workers completed.
C1_StrictlyIncreasingPages ==
    Returned =>
        \A i, j \in 1..Len(documents) :
            i < j => documents[i].page < documents[j].page

C1_Witness ==
    Returned /\ Len(documents) >= 2 /\ CompletedOutOfOrder

FailedPages == {p \in Pages : outcome[p].kind # "doc"}

\* C2 as claimed: output[i].pageNumber == i+1 for every index i (0-based),
\* i.e. the k-th document (1-based) is page k.
C2_Original_IndexEqualsPage ==
    Returned => \A k \in 1..Len(documents) : documents[k].page = k

\* C2 as amended: the output holds exactly the pages that did not fail, and
\* the k-th document's page number is k plus the number of failed pages
\* before it; so it is k when no page failed.
C2_IndexLaw ==
    Returned =>
        /\ Len(documents) = num_pages - Cardinality(FailedPages)
        /\ \A k \in 1..Len(documents) :
              /\ outcome[documents[k].page - 1] = documents[k]
              /\ documents[k].page =
                    k + Cardinality({p \in FailedPages : p + 1 < documents[k].page})
        /\ (FailedPages = {} => \A k \in 1..Len(documents) : documents[k].page = k)

C2_Witness ==
    /\ Returned /\ CompletedOutOfOrder
    /\ Len(documents) >= 2
    /\ \E p \in FailedPages : p + 1 < documents[Len(documents)].page

\* the positions of the returned list that hold the record of page p (0-based)
RecordsOf(p) == {k \in 1..Len(documents) : documents[k].page = p + 1}

\* C16: when pages fail, process_pdf still returns (every future is yielded and
\* the list is built), with exactly one record for every page that did not
\* fail, and nothing, neither a record nor a placeholder, for a failed page.
C16_FailedPagesIsolated ==
    /\ ((pdfPc = "pool" /\ \A p \in Pages : future[p] = "yielded")
            => ENABLED ReturnDocuments)
    /\ (Returned =>
            /\ \A p \in Pages :
                  /\ (outcome[p].kind = "doc" =>
                        \E k \in 1..Len(documents) :
                            /\ RecordsOf(p) = {k}
                            /\ documents[k] = outcome[p])
                  /\ (outcome[p].kind # "doc" => RecordsOf(p) = {})
            /\ \A k \in 1..Len(documents) :
                  documents[k].kind = "doc" /\ documents[k].page - 1 \in Pages)

\* a run in which one page returned None, one raised and one went through
C16_Witness ==
    /\ Returned
    /\ \E p, q, r \in Pages :
          /\ outcome[p].kind = "none"
          /\ outcome[q].kind = "raised"
          /\ outcome[r].kind = "doc" /\ RecordsOf(r) # {}

\* C15: during process_pdf at most 5 page-processing tasks are executing at
\* any moment, whatever the number of pages.
C15_AtMostFiveRunning == Cardinality(Running) <= 5

\* five pages are being processed while a sixth waits for a worker
C15_Witness ==
    /\ Cardinality(Running) = 5
    /\ \E p \in Pages : future[p] = "pending"

\* every (document, element) position of the returned list
ElementsOut ==
    {<<k, e>> : k \in 1..Len(documents), e \in 1..MaxItems} \cap
    UNION {{<<k, e>> : e \in 1..Len(documents[k].image_metadata)} :
              k \in 1..Len(documents)}

\* C3: within one run no two visual elements are emitted with the same id.
C3_IdsUnique ==
    Returned =>
        \A a, b \in ElementsOut :
            a # b => documents[a[1]].image_metadata[a[2]].id
                        # documents[b[1]].image_metadata[b[2]].id

-----------------------------------------------------------------------------
(* Claims about _process_page (under SpecPage)                             *)

Called == pageOut.called

Detections == DetectLayout(pageIn.detect).items

InScale(bbox) == Len(bbox) = 4 /\ \A k \in 1..4 : bbox[k] \in 0..1000

\* C4: for a detection box with all four coordinates in 0..1000 the crop box
\* computed by _process_page lies inside the page: 0 <= left, right <= w and
\* 0 <= top, bottom <= h.
C4_CropBoxInsidePage ==
    Called =>
        \A k \in 1..Len(pageOut.boxes) :
            LET b  == pageOut.boxes[k]
                cb == b.box
            IN  InScale(Detections[b.idx + 1].bbox) =>
                    /\ 0 <= cb[1] /\ cb[1] <= pageIn.w
                    /\ 0 <= cb[3] /\ cb[3] <= pageIn.w
                    /\ 0 <= cb[2] /\ cb[2] <= pageIn.h
                    /\ 0 <= cb[4] /\ cb[4] <= pageIn.h

\* a box in scale whose padded edges were clamped on both sides
C4_Witness ==
    /\ Called /\ Len(pageOut.boxes) = 1
    /\ LET bbox == Detections[1].bbox
       IN  /\ InScale(bbox)
           /\ PyInt(bbox[2] * pageIn.w, 1000) - Pad(pageIn.w) < 0
           /\ PyInt(bbox[4] * pageIn.w, 1000) + Pad(pageIn.w) > pageIn.w
           /\ pageOut.boxes[1].box[1] = 0
           /\ pageOut.boxes[1].box[3] = pageIn.w
           /\ pageIn.w > 1

InSeq(x, sq) == \E k \in 1..Len(sq) : sq[k] = x

HasElement(idx) ==
    \E k \in 1..Len(pageOut.ret.image_metadata) :
        pageOut.ret.image_metadata[k].path.idx = idx

RawDegenerate(bbox) ==
    Len(bbox) = 4 /\ (bbox[3] <= bbox[1] \/ bbox[4] <= bbox[2])

\* nothing else on the page can raise: every bbox has four numbers and every
\* analysis answer is an object or a failure the analyzer turns into None
NoOtherFailure ==
    /\ pageIn.opens /\ DetectLayout(pageIn.detect).kind = "list"
    /\ \A k \in 1..Len(Detections) :
          Len(Detections[k].bbox) = 4 /\ pageIn.analyses[k].kind # "json_list"

\* C5 as claimed: a detection whose raw box has yMax <= yMin or xMax <= xMin
\* is skipped (no crop, no Region Analyzer call, no visual element) and the
\* page is still emitted.  Stated for boxes on the 0-1000 scale, on pages on
\* which nothing else can raise.
C5_Original_RawDegenerateSkipped ==
    (Called /\ NoOtherFailure) =>
        \A k \in 1..Len(Detections) :
            (InScale(Detections[k].bbox) /\ RawDegenerate(Detections[k].bbox)) =>
                /\ ~InSeq(k - 1, pageOut.cropped)
                /\ ~InSeq(k - 1, pageOut.analysed)
                /\ ~HasElement(k - 1)
                /\ pageOut.ret.kind = "doc"

\* C5 as amended: a detection whose computed crop box (scaled, padded,
\* clamped) has right <= left or bottom <= top is skipped: no crop, no Region
\* Analyzer call, no visual element; the loop goes on with the next detection,
\* and if it was the last one the page is emitted.
C5_ComputedDegenerateSkipped ==
    Called =>
        \A k \in 1..Len(pageOut.boxes) :
            LET b == pageOut.boxes[k]
            IN  (b.box[3] <= b.box[1] \/ b.box[4] <= b.box[2]) =>
                    /\ ~InSeq(b.idx, pageOut.cropped)
                    /\ ~InSeq(b.idx, pageOut.analysed)
                    /\ ~HasElement(b.idx)
                    /\ (b.idx + 1 < Len(Detections)
                            => InSeq(b.idx + 1, pageOut.visited))
                    /\ (b.idx + 1 = Len(Detections) => pageOut.ret.kind = "doc")

\* an empty computed box was skipped and the detection after it became an element
C5_Witness ==
    /\ Called /\ Len(pageOut.boxes) = 2
    /\ pageOut.boxes[1].box[3] <= pageOut.boxes[1].box[1]
    /\ pageOut.cropped = <<1>>
    /\ pageOut.ret.kind = "doc" /\ HasElement(1)

\* the page's text buffer holds the raw text and nothing else
RawTextOnly ==
    /\ Len(pageOut.ret.page_content) = 1
    /\ pageOut.ret.page_content[1].kind = "raw"
    /\ pageOut.ret.page_content[1].description = pageIn.text

\* C17: whenever the layout detector's answer cannot be used (the call fails,
\* the answer is no JSON, or it carries no usable item list), the page is
\* still emitted, with its raw text and no visual element.
C17_DetectionFailureKeepsPage ==
    (Called /\ pageIn.opens
        /\ pageIn.detect.kind \in {"error", "nonjson", "json_list", "no_items",
                                   "items_null"}) =>
        /\ pageOut.ret.kind = "doc"
        /\ pageOut.ret.image_metadata = <<>>
        /\ RawTextOnly

\* detection k (1-based) has a box of four numbers that gives a crop, and its
\* analysis answer is a JSON object with content
RegionOk(k) ==
    /\ Len(Detections[k].bbox) = 4
    /\ ~SkipBox(CropBox(Detections[k].bbox, pageIn.w, pageIn.h))
    /\ pageIn.analyses[k].kind = "dict"

\* C18: a failure confined to one region (a box that cannot be used, an
\* analysis that fails or answers something unexpected) skips that region
\* only: the page is emitted and holds the elements of its other detections.
C18_RegionFailureSkipsOnlyRegion ==
    (Called /\ pageIn.opens /\ pageIn.detect.kind = "items") =>
        /\ pageOut.ret.kind = "doc"
        /\ \A k \in 1..Len(Detections) : RegionOk(k) <=> HasElement(k - 1)

\* sub occurs in the string s
HasSub(s, sub) ==
    \E i \in 1..(Len(s) - Len(sub) + 1) : SubSeq(s, i, i + Len(sub) - 1) = sub

\* the coarse label the detector gave for the element, lower-cased
LabelOf(m) == Lower(Detections[m.path.idx + 1].type)

\* C19: the type stored on a visual element is table if its lower-cased
\* label contains "table"; otherwise chart if it contains "chart", "graph"
\* or "plot"; otherwise figure; and the crop is stored under the directory
\* of that type.
C19_TypeNormalised ==
    Called =>
        \A k \in 1..Len(pageOut.ret.image_metadata) :
            LET m == pageOut.ret.image_metadata[k]
                l == LabelOf(m)
            IN  /\ m.type \in {"table", "chart", "figure"}
                /\ m.type = (IF HasSub(l, sTable) THEN "table"
                             ELSE IF HasSub(l, sChart) \/ HasSub(l, sGraph)
                                     \/ HasSub(l, sPlot) THEN "chart"
                             ELSE "figure")
                /\ m.path.dir = m.type

\* a page with a table whose label also holds a chart word, and a chart
\* whose label is in mixed case
C19_Witness ==
    /\ Called /\ Len(pageOut.ret.image_metadata) = 2
    /\ LET m1 == pageOut.ret.image_metadata[1]
           m2 == pageOut.ret.image_metadata[2]
       IN  /\ Detections[1].type = sPlotTable /\ m1.type = "table"
           /\ Detections[2].type = sBarChart  /\ m2.type = "chart"

Emitted == Called /\ pageOut.ret.kind = "doc"

\* C26: for every emitted page record the page text is the raw text followed
\* by one annotated reference per visual element of the record, in detection
\* order; the ids of the references are the ids of the record's visual-element
\* list, each once and in the same order, and every reference names the
\* record's 1-based page number.
C26_TextIsRawThenReferences ==
    Emitted =>
        LET content == pageOut.ret.page_content
            meta    == pageOut.ret.image_metadata
        IN  /\ Len(content) = 1 + Len(meta)
            /\ content[1].kind = "raw"
            /\ content[1].description = pageIn.text
            /\ \A k \in 1..Len(meta) :
                  /\ content[k + 1].kind = "ref"
                  /\ content[k + 1].id = meta[k].id
                  /\ content[k + 1].label = Capitalize(meta[k].type)
                  /\ content[k + 1].page = pageOut.ret.page
                  /\ content[k + 1].page = pageIn.page_num + 1
            /\ \A j, k \in 1..Len(meta) :
                  j < k => meta[j].path.idx < meta[k].path.idx

\* the second page of a document with two visual elements of different ids
C26_Witness ==
    /\ Emitted /\ pageIn.page_num = 1
    /\ Len(pageOut.ret.image_metadata) = 2
    /\ Len(pageOut.ret.page_content) = 3
    /\ pageOut.ret.page_content[2].id # pageOut.ret.page_content[3].id
    /\ pageOut.ret.page_content[3].page = 2

Degenerate(cb) == cb[3] <= cb[1] \/ cb[4] <= cb[2]

OutOfScale(bbox) == \E k \in 1..Len(bbox) : bbox[k] < 0 \/ bbox[k] > 1000

\* C28: a detection whose box was computed is skipped if and only if, after
\* scaling, padding and clamping, right <= left or bottom <= top; so for any
\* integer box values, also negative or above 1000, every region that is
\* cropped and analysed has 0 <= left < right <= w and 0 <= top < bottom <= h.
C28_SkippedIffDegenerate ==
    Called =>
        \A k \in 1..Len(pageOut.boxes) :
            LET b  == pageOut.boxes[k]
                cb == b.box
            IN  /\ InSeq(b.idx, pageOut.cropped) <=> ~Degenerate(cb)
                /\ InSeq(b.idx, pageOut.analysed) <=> ~Degenerate(cb)
                /\ InSeq(b.idx, pageOut.cropped) =>
                      /\ 0 <= cb[1] /\ cb[1] < cb[3] /\ cb[3] <= pageIn.w
                      /\ 0 <= cb[2] /\ cb[2] < cb[4] /\ cb[4] <= pageIn.h

\* a box with a negative and an above-scale coordinate on each axis is
\* cropped as the whole page
C28_Witness ==
    /\ Called /\ Len(pageOut.boxes) = 1 /\ pageOut.cropped = <<0>>
    /\ pageIn.w > 1
    /\ LET bbox == Detections[1].bbox
       IN  /\ OutOfScale(bbox)
           /\ bbox[1] < 0 /\ bbox[2] < 0 /\ bbox[3] > 1000 /\ bbox[4] > 1000
    /\ pageOut.boxes[1].box = <<0, 0, pageIn.w, pageIn.h>>

-----------------------------------------------------------------------------
(* Claims about the visual linker (under SpecLink)                         *)

Linked == linkOut.done

\* text holds "ID:", optional whitespace, the id and "]" in a row
Occurs(id, text) ==
    /\ id # <<>>
    /\ \E i \in 1..Len(text), j \in 1..Len(text) :
          /\ i + 3 <= j /\ j + Len(id) <= Len(text)
          /\ SubSeq(text, i, i + 2) = sID
          /\ \A k \in (i + 3)..(j - 1) : text[k] \in SpaceChars
          /\ SubSeq(text, j, j + Len(id) - 1) = id
          /\ text[j + Len(id)] = "]"

Cited(item) ==
    item.has_id /\ \E d \in 1..Len(source_docs) :
                       Occurs(item.id, source_docs[d].page_content)

OriginItem(n) ==
    source_docs[linkOut.origin[n].doc].meta.items[linkOut.origin[n].item]

\* C6: a candidate is built with isLinked = true if and only if its visual
\* element's id occurs, in the form `ID: <id>]`, in the text of at least one
\* retrieved chunk, whichever chunk carries the element's metadata; candidates
\* sharing an id get the same isLinked value.
C6_LinkedIffCited ==
    Linked =>
        /\ \A n \in 1..Len(linkOut.candidates) :
              /\ linkOut.candidates[n].is_linked = Cited(OriginItem(n))
              /\ linkOut.images[n].is_linked = linkOut.candidates[n].is_linked
        /\ \A n, m \in 1..Len(linkOut.candidates) :
              (OriginItem(n).has_id /\ OriginItem(m).has_id
                    /\ OriginItem(n).id = OriginItem(m).id)
                => linkOut.candidates[n].is_linked = linkOut.candidates[m].is_linked

\* a candidate is linked through a chunk other than the one carrying it,
\* beside a candidate that is not linked
C6_Witness ==
    /\ Linked
    /\ \E n, m \in 1..Len(linkOut.candidates) :
          /\ linkOut.candidates[n].is_linked
          /\ linkOut.origin[n].doc = 1
          /\ ~Occurs(OriginItem(n).id, source_docs[1].page_content)
          /\ ~linkOut.candidates[m].is_linked
          /\ OriginItem(m).has_id

\* the (chunk, element) pairs of chunk d in element order: all of them, or
\* only those whose image file exists
ElementPairs(d, onlyExisting) ==
    LET items == source_docs[d].meta.items
    IN  IF source_docs[d].meta.kind # "list" THEN <<>>
        ELSE SelectSeq([i \in 1..Len(items) |-> [doc |-> d, item |-> i]],
                       LAMBDA pr : ~onlyExisting \/ items[pr.item].path = "exists")

RECURSIVE PairsUpTo(_, _)
\* the pairs of chunks 1..d, ordered by chunk, then by element
PairsUpTo(d, onlyExisting) ==
    IF d = 0 THEN <<>>
    ELSE PairsUpTo(d - 1, onlyExisting) \o ElementPairs(d, onlyExisting)

PairItem(pr) == source_docs[pr.doc].meta.items[pr.item]

\* the candidate list is built from exactly these pairs, in this order
CandidatesAre(pairs) ==
    /\ linkOut.origin = pairs
    /\ Len(linkOut.candidates) = Len(pairs)
    /\ \A n \in 1..Len(pairs) :
          /\ linkOut.candidates[n].type = PairItem(pairs[n]).type
          /\ linkOut.candidates[n].description.tag
                = PairItem(pairs[n]).description.tag

\* C25 as claimed: the candidate list has one entry per (retrieved chunk,
\* visual element in that chunk's metadata) pair, ordered by chunk, then by
\* element.
C25_Original_OnePerPair ==
    Linked => CandidatesAre(PairsUpTo(Len(source_docs), FALSE))

\* C25 as amended: the linker does not deduplicate; the candidate list has one
\* entry per (retrieved chunk, visual element in that chunk's metadata whose
\* image file exists) pair, ordered by chunk, then by element, so an element
\* with an existing file attached to k retrieved chunks yields k candidates.
C25_OnePerExistingPair ==
    Linked => CandidatesAre(PairsUpTo(Len(source_docs), TRUE))

\* the same element is attached to two chunks and gives two candidates, and an
\* element whose file is gone gives none
C25_Witness ==
    /\ Linked /\ Len(source_docs) = 2
    /\ source_docs[1].meta.items = <<ItemA, ItemBGone>>
    /\ source_docs[2].meta.items = <<ItemA>>
    /\ Len(linkOut.candidates) = 2
    /\ OriginItem(1) = ItemA /\ OriginItem(2) = ItemA

\* C29: the candidate list given to the classifier and the image list used for
\* display have the same length; position i of both is built from the same
\* visual element, and candidates[i].id = i (0-based), so an index the
\* classifier names resolves to the element that was described to it.
C29_ListsAligned ==
    Linked =>
        /\ Len(linkOut.candidates) = Len(linkOut.images)
        /\ \A n \in 1..Len(linkOut.candidates) :
              /\ linkOut.candidates[n].id = n - 1
              /\ linkOut.images[n].path = linkOut.origin[n]
              /\ linkOut.images[n].markdown = OriginItem(n).markdown
              /\ linkOut.images[n].page = source_docs[linkOut.origin[n].doc].page
              /\ linkOut.candidates[n].type = OriginItem(n).type
              /\ linkOut.candidates[n].description.tag
                    = OriginItem(n).description.tag

\* three candidates from two chunks, an element without a file between them:
\* the second candidate is the first element of the second chunk
C29_Witness ==
    /\ Linked
    /\ Len(linkOut.candidates) = 3 /\ Len(linkOut.images) = 3
    /\ Len(source_docs[1].meta.items) = 2
    /\ linkOut.candidates[2].id = 1
    /\ linkOut.images[2].path = [doc |-> 2, item |-> 1]

-----------------------------------------------------------------------------
(* Claims about select_best_visual_match (under SpecSelect)                *)

Selected == selOut.done /\ selOut.ret.kind = "dict"

\* C7: a returned selection whose intent is "specific" has at most 2 selected
\* indices, for every classifier response.  Counted here are the different
\* indices that name a candidate.
C7_SpecificAtMostTwo ==
    (Selected /\ selOut.ret.has_intent /\ selOut.ret.intent = "specific")
        => Cardinality(Range(selOut.ret.selected_indices)
                            \cap 0..(Len(selCands.items) - 1)) <= 2

\* C8: a returned selection whose intent is "all" and whose requested type is
\* table, chart or figure selects exactly the indices of the candidates of
\* that type.
C8_AllSelectsEveryMatch ==
    (/\ Selected /\ selOut.ret.has_intent /\ selOut.ret.intent = "all"
     /\ selOut.ret.has_type /\ selOut.ret.visual_type_requested \in VisualTypes)
        => Range(selOut.ret.selected_indices)
              = {n - 1 : n \in {m \in 1..Len(selCands.items) :
                                  selCands.items[m].type
                                      = selOut.ret.visual_type_requested}}

\* C20: when the candidate list is empty or absent, the selector returns no
\* selection and the classifier is never invoked.
C20_EmptyShortCircuits ==
    (selOut.done /\ (selCands.kind = "none" \/ Len(selCands.items) = 0)) =>
        /\ ~selOut.called
        /\ selOut.ret.kind = "none"

\* the selector was called with an empty list and returned None
C20_Witness ==
    /\ selOut.done /\ selCands = CandList(<<>>)
    /\ ~selOut.called /\ selOut.ret = ReturnsNone

-----------------------------------------------------------------------------
(* Claims about the chat handler's selection (under SpecChat)              *)

\* the handler asked the selector
Handled == chatOut.done /\ chatOut.asked

\* classifier outcomes that are no object of the expected shape
UnusableAnswers ==
    {"error", "nonjson", "json_null", "json_list", "json_empty_list",
     "dict_str_indices"}

\* C21: for every classifier outcome that is a call error, no JSON, or JSON
\* that is no object of the expected shape, the selection ends in "no
\* selection" with the generic reason, and no exception leaves the selection.
C21_FailuresGiveNoSelection ==
    Handled =>
        /\ ~chatOut.shown.raised
        /\ (chatOut.resp.kind \in UnusableAnswers => chatOut.parsed = NoSelection)

\* C22: when the answer has no selected_indices list, or an empty one, and
\* carries the legacy selected_index with a value, the effective selection is
\* the one-element list of that index; a list that is present and non-empty
\* is used as it is and the legacy field is ignored.
C22_LegacyFallback ==
    (Handled /\ chatOut.selection.kind = "dict") =>
        LET sel == chatOut.selection
            eff == chatOut.parsed.selected_indices
        IN  /\ ((~sel.has_indices \/ Len(sel.selected_indices) = 0) /\ sel.has_index
                    => eff = <<sel.selected_index>>)
            /\ (sel.has_indices /\ Len(sel.selected_indices) > 0
                    => eff = sel.selected_indices)
            /\ ((~sel.has_indices \/ Len(sel.selected_indices) = 0) /\ ~sel.has_index
                    => eff = <<>>)

\* the legacy field alone, with the index 0, and the first visual was shown
C22_Witness ==
    /\ Handled /\ chatOut.selection.kind = "dict"
    /\ ~chatOut.selection.has_indices
    /\ chatOut.selection.has_index /\ chatOut.selection.selected_index = 0
    /\ chatOut.parsed.selected_indices = <<0>>
    /\ chatOut.shown.primary = <<0>>

\* the selected indices that lie in 0..len(candidates)-1, in order
InRange(indices) ==
    SelectSeq(indices, LAMBDA i : i \in 0..(Len(chatCands) - 1))

\* C23: for a non-empty list of selected indices, intent "specific" shows
\* exactly the first index in range as the primary visual (none when all are
\* out of range), intent "all" shows every index in range; an index out of
\* range is ignored and raises nothing.
C23_InRangeShown ==
    (Handled /\ chatOut.selection.kind = "dict"
        /\ chatOut.parsed.selected_indices # <<>>
        /\ chatOut.parsed.intent \in {"specific", "all"}) =>
        LET valid == InRange(chatOut.parsed.selected_indices)
        IN  /\ ~chatOut.shown.raised
            /\ (chatOut.parsed.intent = "specific" =>
                    chatOut.shown.primary
                        = (IF valid = <<>> THEN <<>> ELSE <<valid[1]>>))
            /\ (chatOut.parsed.intent = "all" => chatOut.shown.primary = valid)

\* intent "specific" with an index out of range before two indices in range
C23_Witness ==
    /\ Handled /\ chatOut.parsed.intent = "specific"
    /\ Len(chatOut.parsed.selected_indices) = 3
    /\ chatOut.parsed.selected_indices[1] >= Len(chatCands)
    /\ Len(InRange(chatOut.parsed.selected_indices)) = 2
    /\ chatOut.shown.primary = <<chatOut.parsed.selected_indices[2]>>

\* C31: for a query whose intent is not "all" (and whose handling raises
\* nothing), every candidate is shown either as the primary visual or in the
\* gallery "All Detected Visuals in Context"; in particular a selected index
\* in range that is not the primary visual is shown in that gallery.
C31_EveryVisualShown ==
    (Handled /\ ~chatOut.shown.raised /\ chatOut.parsed.intent # "all") =>
        \A i \in 0..(Len(chatCands) - 1) :
            InSeq(i, chatOut.shown.primary) \/ InSeq(i, chatOut.shown.others)

-----------------------------------------------------------------------------
(* Claims about ingest_documents (under SpecIngest)                        *)

IngestReturned == ingPc = "done"
IngestEnded    == ingPc \in {"done", "raised"}

\* ceil(N / B)
CeilDiv(n, b) == (n + b - 1) \div b

Batches == DOMAIN batchLog

RECURSIVE SumOver(_, _)
SumOver(f(_), S) ==
    IF S = {} THEN 0
    ELSE LET x == CHOOSE y \in S : TRUE IN f(x) + SumOver(f, S \ {x})

AttemptsOf(b)    == batchLog[b].attempts
RateLimitedOf(b) == batchLog[b].rate_limited

\* C9 as claimed: a run on N chunks issues exactly ceil(N/B) upsert calls.
C9_Original_ExactlyCeilCalls ==
    IngestReturned => upsertCalls = CeilDiv(total_chunks, BatchSize)

\* C9 as amended: a run that returns has gone through ceil(N/B) batches, each
\* submitted at least once and at most 5 times: one first attempt per batch
\* and one more call for every rate-limit failure that is retried.  So the
\* calls number between ceil(N/B) and 5 * ceil(N/B), and exactly ceil(N/B)
\* when no call failed.
C9_CallsPerBatch ==
    IngestReturned =>
        LET nb == CeilDiv(total_chunks, BatchSize)
        IN  /\ \A b \in Batches : b < nb <=> AttemptsOf(b) >= 1
            /\ \A b \in Batches : AttemptsOf(b) <= MaxRetries
            /\ \A b \in Batches :
                  AttemptsOf(b) = RateLimitedOf(b)
                                    + (IF batchLog[b].outcome = "ok" THEN 1 ELSE 0)
            /\ upsertCalls = SumOver(AttemptsOf, Batches)
            /\ nb <= upsertCalls /\ upsertCalls <= MaxRetries * nb
            /\ (SumOver(RateLimitedOf, Batches) = 0 => upsertCalls = nb)

\* a run over a last, partial batch in which some call was retried
C9_Witness ==
    /\ IngestReturned
    /\ total_chunks % BatchSize # 0
    /\ CeilDiv(total_chunks, BatchSize) >= 2
    /\ upsertCalls > CeilDiv(total_chunks, BatchSize)

GivenUp(b) == batchLog[b].outcome = "given_up"
Fatal(b)   == batchLog[b].outcome = "fatal"

RunBatches == {b \in Batches : b < CeilDiv(total_chunks, BatchSize)}

\* C10 as claimed: after a batch whose upsert failed for good (given up after
\* the retry ceiling), every later batch is still submitted at least once.
C10_Original_LaterBatchesSubmitted ==
    IngestEnded =>
        \A b \in RunBatches : GivenUp(b) =>
            \A c \in RunBatches : c > b => AttemptsOf(c) >= 1

\* C10 as amended: a batch given up after the retry ceiling does not end the
\* run: the batch after it is submitted, and so is every later batch up to
\* and including the first one whose upsert fails with another kind of error;
\* such an error ends the run and the batches after it are not submitted.
C10_GiveUpDoesNotBlock ==
    IngestEnded =>
        \A b \in RunBatches : GivenUp(b) =>
            /\ (b + 1 \in RunBatches => AttemptsOf(b + 1) >= 1)
            /\ \A c \in RunBatches :
                  c > b => (AttemptsOf(c) >= 1
                              <=> ~\E d \in RunBatches : d < c /\ Fatal(d))

\* the first batch was given up and the two batches after it went in
C10_Witness ==
    /\ IngestReturned
    /\ GivenUp(0)
    /\ 2 \in RunBatches
    /\ batchLog[1].outcome = "ok" /\ batchLog[2].outcome = "ok"

\* the rate-limit failures of batch b grow by one in this step
RateLimitedNow(b) == batchLog'[b].rate_limited = batchLog[b].rate_limited + 1

\* C11: each batch is attempted at most 5 times; the k-th consecutive
\* rate-limit failure of a batch (k = 1..5) is followed by a wait of 2^k
\* seconds; after the 5th the batch is given up and never submitted again.
C11_BoundedBackoff ==
    /\ [](\A b \in Batches :
            /\ AttemptsOf(b) <= 5
            /\ RateLimitedOf(b) <= 5
            /\ (GivenUp(b) <=> RateLimitedOf(b) = 5)
            /\ (GivenUp(b) => AttemptsOf(b) = 5))
    /\ [][\A b \in Batches : RateLimitedNow(b) =>
            LET k == batchLog'[b].rate_limited
            IN  /\ sleeps' = Append(sleeps, 2^k)
                /\ (k < 5 => ingPc' = "attempt" /\ batch_i' = batch_i)
                /\ (k = 5 => ingPc' = "after_batch")]_vars
    /\ [][\A b \in Batches : GivenUp(b) => batchLog'[b].attempts = 5]_vars

\* a batch went in after two rate-limit failures, and the batch before it was
\* given up after the waits 2, 4, 8, 16, 32
C11_Witness ==
    /\ IngestReturned
    /\ GivenUp(0)
    /\ SubSeq(sleeps, 1, 6) = <<2, 4, 8, 16, 32, 1>>
    /\ batchLog[1].outcome = "ok" /\ RateLimitedOf(1) = 2
    /\ SubSeq(sleeps, 7, 9) = <<2, 4, 1>>

\* C12: an upsert failure that is not a rate-limit or quota error is raised
\* at once: the batch is not submitted again and no later batch is submitted.
C12_FatalRaisedAtOnce ==
    /\ [](\A b \in Batches : Fatal(b) =>
            /\ ingPc = "raised"
            /\ BatchOf(batch_i) = b
            /\ AttemptsOf(b) = RateLimitedOf(b) + 1
            /\ \A c \in Batches : c > b => AttemptsOf(c) = 0)
    /\ [][ingPc = "raised" =>
            /\ ingPc' = "raised"
            /\ upsertCalls' = upsertCalls
            /\ batchLog' = batchLog
            /\ collection' = collection]_vars

\* the second of three batches fails for good after a retried rate limit
C12_Witness ==
    /\ ingPc = "raised"
    /\ batchLog[0].outcome = "ok"
    /\ Fatal(1) /\ RateLimitedOf(1) >= 1
    /\ 2 \in RunBatches /\ AttemptsOf(2) = 0

\* the log of a run over the same chunks in which every upsert succeeded at once
AllOkLog ==
    [b \in Batches |->
        IF b \in RunBatches THEN [NewBatch EXCEPT !.attempts = 1, !.outcome = "ok"]
        ELSE NewBatch]

\* C13: when ingest_documents finishes, what its caller is given tells a run
\* in which some batch was given up from a run in which every batch went in.
C13_GiveUpSurfaced ==
    IngestReturned /\ (\E b \in RunBatches : GivenUp(b)) =>
        \A n_pages \in 1..MaxPages :
            CallerView(batchLog, n_pages) # CallerView(AllOkLog, n_pages)

\* C14: once a run has submitted a batch, the collection holds no chunk of an
\* earlier run (the earlier run's chunks are -1), only batches of this run.
C14_NoStaleChunks ==
    upsertCalls >= 1 => \A c \in collection : c \in RunBatches

\* the batches whose handling the loop has finished
Finished(b) == b \in RunBatches /\ b * BatchSize < batch_i

\* the number of inter-batch delays slept so far
DelaysSlept == Cardinality({i \in 1..Len(sleeps) : sleeps[i] = 1})

\* C24: the batches are issued one after another in chunk order: the first
\* attempt of batch k+1 comes only after batch k has succeeded or been given
\* up and the inter-batch delay has been slept, also after a success at the
\* first attempt; at most one batch is under way at any moment.
C24_BatchesOneAfterAnother ==
    /\ [](\A b \in Batches :
            /\ (AttemptsOf(b) >= 1 /\ batchLog[b].outcome = "none"
                    => ingPc = "attempt" /\ b = BatchOf(batch_i))
            /\ (AttemptsOf(b) >= 1
                    => \A a \in Batches : a < b =>
                          batchLog[a].outcome \in {"ok", "given_up"}))
    /\ [][\A b \in Batches :
            (AttemptsOf(b) = 0 /\ batchLog'[b].attempts = 1) =>
                /\ ingPc = "attempt" /\ b = BatchOf(batch_i)
                /\ DelaysSlept = b
                /\ (b > 0 => sleeps[Len(sleeps)] = 1)]_vars

\* the second batch was submitted after the first had gone in at once
C24_Witness ==
    /\ batchLog[0].outcome = "ok" /\ AttemptsOf(0) = 1
    /\ AttemptsOf(1) >= 1
    /\ sleeps[1] = 1

\* C27: ingestion is not atomic for readers.  A query that reads while an
\* upsert is pending, after the reset has emptied a collection that held
\* something, sees neither the previous content nor the complete new content:
\* it sees part of the new content, or nothing.
C27_ReadersSeePartial ==
    (readerSaw.taken /\ readerSaw.during = "attempt" /\ previous # {}
        /\ readerSaw.content \cap previous = {}) =>
        /\ readerSaw.content # previous
        /\ readerSaw.content # RunBatches
        /\ readerSaw.content \subseteq RunBatches

\* a query saw the first of three batches and nothing else
C27_Witness ==
    /\ readerSaw.taken /\ previous = {-1}
    /\ RunBatches = {0, 1, 2}
    /\ readerSaw.content = {0}

\* the upsert calls of batch b that returned
Successes(b) ==
    AttemptsOf(b) - RateLimitedOf(b) - (IF Fatal(b) THEN 1 ELSE 0)

\* the failure of batch b was reported: printed after the retries were used
\* up, or raised to the caller
ReportedFailed(b) == batchLog[b].reported \/ (Fatal(b) /\ ingPc = "raised")

\* C30: a batch is reported as failed exactly when none of its upsert
\* attempts succeeded; a batch that went in on a retry is not reported; no
\* batch is upserted successfully more than once in a run.
C30_ReportedIffNoSuccess ==
    \A b \in Batches :
        /\ Successes(b) \in {0, 1}
        /\ (Successes(b) = 1 <=> batchLog[b].outcome = "ok")
        /\ ((Finished(b) \/ Fatal(b)) => (ReportedFailed(b) <=> Successes(b) = 0))
        /\ (Successes(b) = 1 => ~ReportedFailed(b))
        /\ (~Finished(b) => ~batchLog[b].reported)

\* one batch went in on its fourth retry, the next was given up and reported
C30_Witness ==
    /\ IngestReturned
    /\ batchLog[0].outcome = "ok" /\ RateLimitedOf(0) = 4 /\ ~batchLog[0].reported
    /\ GivenUp(1) /\ batchLog[1].reported

-----------------------------------------------------------------------------
(* Claims about termination (under SpecLive)                               *)

\* a future goes from queued to running to finished to yielded, one step at
\* a time and never back: no page is processed twice
FutureSteps ==
    {<<"pending", "running">>, <<"running", "done">>, <<"done", "yielded">>}

PageProcessedOnce ==
    \A p \in Pages : future'[p] # future[p] => <<future[p], future'[p]>> \in FutureSteps

AllPagesProcessed == \A p \in Pages : future[p] = "yielded"

AttemptBound == MaxRetries * CeilDiv(total_chunks, BatchSize)

\* C32: provided every external call returns or fails, process_pdf returns
\* in the end, after each page was processed exactly once, and
\* ingest_documents returns or raises in the end, after at most
\* 5 * ceil(N/B) upsert attempts for N chunks in batches of B.
C32_BothTerminate ==
    /\ (pdfPc = "pool") ~> (Returned /\ AllPagesProcessed)
    /\ [][PageProcessedOnce]_vars
    /\ (ingPc = "reset") ~> (IngestEnded /\ upsertCalls <= AttemptBound)
    /\ [](upsertCalls <= AttemptBound)

\* a run over three batches that were all given up returned after exactly
\* 5 * 3 upsert attempts
C32_Witness ==
    /\ IngestReturned
    /\ CeilDiv(total_chunks, BatchSize) = 3
    /\ upsertCalls = AttemptBound
    /\ \A b \in RunBatches : GivenUp(b)

-----------------------------------------------------------------------------
(* Initial states                                                          *)

\* The state of an operation that is not running.
PdfIdle ==
    /\ num_pages = 0
    /\ future = <<>>
    /\ outcome = <<>>
    /\ results = <<>>
    /\ issued = {}
    /\ pdfPc = "idle"
    /\ documents = <<>>

PageIdle ==
    /\ pageIn = MkPage(0, FALSE, <<1, 1>>, [kind |-> "error", items |-> <<>>],
                       <<>>, <<>>)
    /\ pageOut = NotCalled

LinkIdle == source_docs = <<>> /\ linkOut = NotLinked

SelIdle == selCands = CandNone /\ selOut = NotSelected

IngIdle ==
    /\ total_chunks = 0
    /\ collection = {}
    /\ batch_i = 0
    /\ retry_count = 0
    /\ ingPc = "idle"
    /\ batchLog = <<>>
    /\ upsertCalls = 0
    /\ sleeps = <<>>
    /\ previous = {}
    /\ readerSaw = NotRead

ChatIdle == chatCands = <<>> /\ chatOut = NotHandled

NonPdfIdle  == PageIdle /\ LinkIdle /\ SelIdle /\ ChatIdle /\ IngIdle
NonPageIdle == PdfIdle /\ LinkIdle /\ SelIdle /\ ChatIdle /\ IngIdle
NonLinkIdle == PdfIdle /\ PageIdle /\ SelIdle /\ ChatIdle /\ IngIdle
NonSelIdle  == PdfIdle /\ PageIdle /\ LinkIdle /\ ChatIdle /\ IngIdle
NonChatIdle == PdfIdle /\ PageIdle /\ LinkIdle /\ SelIdle /\ IngIdle
NonIngIdle  == PdfIdle /\ PageIdle /\ LinkIdle /\ SelIdle /\ ChatIdle

\* process_pdf after the submit loop (lines 46-51): every page is queued.
PdfInit ==
    /\ NonPdfIdle
    /\ num_pages \in 0..MaxPages
    /\ future = [p \in Pages |-> "pending"]
    /\ outcome = [p \in Pages |-> PageNone]
    /\ results = <<>>
    /\ issued = {}
    /\ pdfPc = "pool"
    /\ documents = <<>>

\* process_pdf after the submit loop, on a document of up to MaxPoolPages pages.
PoolInit ==
    /\ NonPdfIdle
    /\ num_pages \in 0..MaxPoolPages
    /\ future = [p \in Pages |-> "pending"]
    /\ outcome = [p \in Pages |-> PageNone]
    /\ results = <<>>
    /\ issued = {}
    /\ pdfPc = "pool"
    /\ documents = <<>>

\* _process_page is about to be called on some page.
PageInit == NonPageIdle /\ pageIn \in PageInputs /\ pageOut = NotCalled

\* The retriever has returned up to MaxDocs chunks.
LinkInit ==
    /\ NonLinkIdle
    /\ source_docs \in SeqsUpTo(LinkChunks, MaxDocs)
    /\ linkOut = NotLinked

\* select_best_visual_match is about to be called with up to MaxCands candidates.
SelInit ==
    /\ NonSelIdle
    /\ selCands \in {CandNone}
            \cup {CandList(MkCandidates(ts)) : ts \in SeqsUpTo(VisualTypes, MaxCands)}
    /\ selOut = NotSelected

\* The linker has built up to MaxCands candidates; the handler goes on to
\* the selection.
ChatInit ==
    /\ NonChatIdle
    /\ chatCands \in {MkCandidates(ts) : ts \in SeqsUpTo(VisualTypes, MaxCands)}
    /\ chatOut = NotHandled

\* ingest_documents after the split (line 23): up to MaxChunks chunks; the
\* collection is empty or holds chunks of an earlier run (-1).
IngInit ==
    /\ NonIngIdle
    /\ total_chunks \in 0..MaxChunks
    /\ collection \in {{}, {-1}}
    /\ previous = collection
    /\ readerSaw = NotRead
    /\ batch_i = 0
    /\ retry_count = 0
    /\ ingPc = "reset"
    /\ batchLog = [b \in 0..BatchOf(MaxChunks) |-> NewBatch]
    /\ upsertCalls = 0
    /\ sleeps = <<>>

\* Either process_pdf has queued its pages, or ingest_documents has split
\* its documents: the two calls the process button makes, one after the other.
LiveInit ==
    \/ /\ NonPdfIdle
       /\ num_pages \in 0..MaxPages
       /\ future = [p \in Pages |-> "pending"]
       /\ outcome = [p \in Pages |-> PageNone]
       /\ results = <<>>
       /\ issued = {}
       /\ pdfPc = "pool"
       /\ documents = <<>>
    \/ /\ NonIngIdle
       /\ total_chunks \in 0..MaxChunks
       /\ collection \in {{}, {-1}}
       /\ previous = collection
       /\ readerSaw = NotRead
       /\ batch_i = 0
       /\ retry_count = 0
       /\ ingPc = "reset"
       /\ batchLog = [b \in 0..BatchOf(MaxChunks) |-> NewBatch]
       /\ upsertCalls = 0
       /\ sleeps = <<>>

-----------------------------------------------------------------------------
(* Specifications                                                          *)

PageNext == CallProcessPage

LinkNext == LinkStep

SelNext == SelectStep

\* process_pdf on a document of up to MaxPages pages.
SpecPdf == PdfInit /\ [][PdfNext]_vars

\* process_pdf on documents with more pages than workers.
SpecPool == PoolInit /\ [][PoolNext]_vars

\* One call of _process_page.
SpecPage == PageInit /\ [][PageNext]_vars

\* The visual linker of the chat handler on up to MaxDocs retrieved chunks.
SpecLink == LinkInit /\ [][LinkNext]_vars

\* One call of select_best_visual_match.
SpecSelect == SelInit /\ [][SelNext]_vars

\* The chat handler's selection, parsing and presentation for one query.
SpecChat == ChatInit /\ [][ChatNext]_vars

\* One run of ingest_documents.
SpecIngest == IngInit /\ [][IngNext]_vars


\* process_pdf on a document of text pages, a worker's call returning or raising
PdfSteps ==
    \/ \E p \in Pages : StartPage(p)
    \/ \E p \in Pages : FinishTextPage(p)
    \/ \E p \in Pages : PageRaises(p)
    \/ \E p \in Pages : CollectResult(p)
    \/ ReturnDocuments

LiveNext == PdfSteps \/ IngestSteps

\* process_pdf or ingest_documents, run to its end.  Every external call
\* returns or fails, the pool runs a queued page when a worker is free,
\* as_completed yields every finished future and time.sleep returns: a step
\* that can be taken is taken in the end.
SpecLive == LiveInit /\ [][LiveNext]_vars /\ WF_vars(PdfSteps) /\ WF_vars(IngestSteps)

====
